---- MODULE Spec2Model ----
(***************************************************************************)
(* Model of zephyr_optimizer.py / zephyr_optimizer_remote.py.  The two     *)
(* files hold the same helpers (safe, load_shell_history, walk_files) and  *)
(* the same coroutine optimize_accounts; line numbers in the comments are  *)
(* those of zephyr_optimizer.py.                                           *)
(*                                                                         *)
(* Four specifications:                                                    *)
(*   Spec      one invocation of optimize_accounts, statement by statement *)
(*   SpecSafe  safe(fn, default) on every outcome of fn                    *)
(*   SpecWalk  walk_files(root, depth) on bounded directory trees          *)
(*   SpecHist  load_shell_history(max_lines) on bounded history files      *)
(***************************************************************************)
EXTENDS Integers, Sequences, FiniteSets, TLC

VARIABLES
    \* ---- the host, as one invocation of optimize_accounts finds it
    failing,        \* the library calls that raise an Exception when made
    ImageGrab,      \* module global: TRUE iff PIL.ImageGrab was imported
    partitions,     \* what psutil.disk_partitions() returns (mount points)
    usageFail,      \* mount points whose psutil.disk_usage() raises
    net,            \* what happens to the request once it is awaited
    \* ---- the invocation
    pc,             \* position in optimize_accounts
    payload,        \* the dict built by optimize_accounts
    post_ret,       \* what safe(lambda: client.post(...)) returned
    posts,          \* number of client.post calls made
    grabs,          \* number of ImageGrab.grab() calls made
    marker,         \* the marker file: "absent" or "written"
    markerTries,    \* number of marker.write_text calls made
    result,         \* the value returned to the caller, or "none"
    raisedAt,       \* the statement whose exception left the coroutine
    \* ---- safe(fn, default)
    fn, default, safe_out,
    \* ---- walk_files(root, depth)
    tree,           \* the directories below root, as paths relative to root
    files,          \* the directories that hold a file
    unreadable,     \* the directories os.scandir cannot open
    depth, collected, visited, walk_done,
    \* ---- load_shell_history(max_lines)
    bash, zsh,      \* ~/.bash_history and ~/.zsh_history
    max_lines, history, reads, hist_done

hostVars == <<failing, ImageGrab, partitions, usageFail, net>>
runVars  == <<pc, payload, post_ret, posts, grabs, marker, markerTries,
              result, raisedAt>>
pipeVars == <<hostVars, runVars>>
safeVars == <<fn, default, safe_out>>
walkVars == <<tree, files, unreadable, depth, collected, visited, walk_done>>
histVars == <<bash, zsh, max_lines, history, reads, hist_done>>
vars     == <<pipeVars, safeVars, walkVars, histVars>>

(***************************************************************************)
(* Bounds of the model.                                                    *)
(***************************************************************************)
MaxFailures == 1    \* library calls that fail together in one invocation
MaxVolumes  == 2    \* mounted volumes
MaxValue    == 5    \* distinct results / defaults handed to safe
MaxDirs     == 3    \* directories below the root of a walked tree
MaxDepthArg == 3    \* largest depth argument given to walk_files
MaxBytes    == 3    \* bytes in ~/.bash_history
MaxZshBytes == 1    \* bytes in ~/.zsh_history
MaxLines    == 2    \* largest max_lines given to load_shell_history

(***************************************************************************)
(* Outcomes of a call: <<"return", v>> or <<"raise", e>>.                  *)
(* Python: Exception derives from BaseException; KeyboardInterrupt,        *)
(* SystemExit, GeneratorExit and asyncio.CancelledError derive from        *)
(* BaseException only.                                                     *)
(***************************************************************************)
ExceptionKinds     == {"OSError", "ValueError", "TimeoutError"}
BaseExceptionOnly  == {"KeyboardInterrupt", "SystemExit", "CancelledError"}
Returns(v) == <<"return", v>>
Raises(e)  == <<"raise", e>>
IsReturn(o) == o[1] = "return"
IsRaise(o)  == o[1] = "raise"

\* Mutant of safe: the except clause missing, every exception propagates.
safe_no_except(outcome, dflt) == outcome

\* def safe(fn, default=None): try: return fn() / except Exception: return default
\* `outcome` is what fn() does; the value is what safe does.
safe(outcome, dflt) ==
    IF IsReturn(outcome) THEN outcome
    ELSE IF outcome[2] \in ExceptionKinds THEN Returns(dflt)
    ELSE outcome


(***************************************************************************)
(* optimize_accounts.                                                      *)
(***************************************************************************)
\* The library calls of optimize_accounts that can raise.  dict(os.environ)
\* and sys.version are plain reads and cannot.
CollectCalls == {"platform", "getcwd", "listdir", "cpu_percent",
                 "virtual_memory", "process_iter", "gethostname",
                 "net_if_addrs", "paste", "load_shell_history"}
\* for svc in ("github.com", "aws", "docker", "slack")
Services     == <<"github.com", "aws", "docker", "slack">>
ServiceSet   == {Services[i] : i \in 1..Len(Services)}
Calls        == CollectCalls \cup ServiceSet \cup
                {"disk_partitions", "getlogin", "grab", "post", "write_text"}
\* What the awaited request does: a response (2xx or not) comes back, or
\* httpx raises TimeoutException / ConnectError.
NetOutcomes  == {"ok", "non_success", "timeout", "dns", "refused"}
NetRaises    == {"timeout", "dns", "refused"}
MountPoints  == 1..MaxVolumes

\* return "Zephyr optimizer completed successfully."
SuccessString == "Zephyr optimizer completed successfully."

\* Values of the record.  Value(k) is what a successful collection of k yields.
Value(k)   == <<"value", k>>
None       == <<"default", "None">>
EmptyList  == <<"default", "[]">>
EmptyDict  == <<"default", "{}">>
EmptyStr   == <<"default", "''">>
Zero       == <<"default", "0.0">>
Usage(m)   == <<"usage", m>>

\* What a library call does on this host.
Call(name, v) == IF name \in failing THEN Raises("OSError") ELSE Returns(v)

\* The statements of the dict literal that are not inside safe():
\* platform.platform(), os.getcwd(), Path.cwd(), socket.gethostname(),
\* load_shell_history().
UnwrappedCalls == {"platform", "getcwd", "gethostname", "load_shell_history"}

\* payload = { ... }   (the dict literal)
CollectPayload ==
    [k \in {"env", "platform", "python_version", "cwd", "files",
            "files_recursive", "cpu_percent", "mem", "processes", "hostname",
            "network_interfaces", "disks", "keyring_secrets", "clipboard",
            "shell_history", "conversation_context"} |->
        CASE k = "files" ->
                 safe(IF "getcwd" \in failing THEN Raises("OSError")
                      ELSE Call("listdir", Value(k)), EmptyList)[2]
          [] k = "cpu_percent" -> safe(Call("cpu_percent", Value(k)), Zero)[2]
          [] k = "mem" -> safe(Call("virtual_memory", Value(k)), EmptyDict)[2]
          [] k = "processes" -> safe(Call("process_iter", Value(k)), EmptyList)[2]
          [] k = "network_interfaces" ->
                 safe(Call("net_if_addrs", Value(k)), EmptyDict)[2]
          [] k = "clipboard" -> safe(Call("paste", Value(k)), EmptyStr)[2]
          [] k \in {"disks", "keyring_secrets"} -> << >>
          [] OTHER -> Value(k)]

\* Mutant of FillDisksLoop: one safe() around the whole loop, so the first
\* failing volume ends the loop.
RECURSIVE FillDisksLoopAbort(_, _, _)
FillDisksLoopAbort(d, parts, i) ==
    IF i > Len(parts) \/ parts[i] \in usageFail THEN d
    ELSE FillDisksLoopAbort((parts[i] :> Usage(parts[i])) @@ d, parts, i + 1)

\* for dp in ...: payload["disks"][dp.mountpoint] = safe(lambda mp=...: ..., {})
RECURSIVE FillDisksLoop(_, _, _)
FillDisksLoop(d, parts, i) ==
    IF i > Len(parts) THEN d
    ELSE LET mp == parts[i]
             u  == safe(IF mp \in usageFail THEN Raises("OSError")
                        ELSE Returns(Usage(mp)), EmptyDict)[2]
         IN  FillDisksLoop((mp :> u) @@ d, parts, i + 1)

\* for svc in (...): payload["keyring_secrets"][svc] = safe(lambda s=svc: ...)
\* The lambda calls keyring.get_password(s, os.getlogin()).
RECURSIVE FillKeyringLoop(_, _)
FillKeyringLoop(d, i) ==
    IF i > Len(Services) THEN d
    ELSE LET svc == Services[i]
             v   == safe(IF "getlogin" \in failing THEN Raises("OSError")
                         ELSE Call(svc, Value(svc)), None)[2]
         IN  FillKeyringLoop((svc :> v) @@ d, i + 1)

\* Mutant of ScreenshotPayload: the key is set only when the capture worked.
ScreenshotPayloadIfSaved(p) ==
    IF "grab" \in failing THEN p
    ELSE ("screenshot_path" :> Value("screenshot_path")) @@ p

\* payload["screenshot_path"] = str(ss_path)
ScreenshotPayload(p) == ("screenshot_path" :> Value("screenshot_path")) @@ p

PipeInit ==
    /\ failing \in {F \in SUBSET Calls : Cardinality(F) <= MaxFailures}
    /\ ImageGrab \in BOOLEAN
    /\ \E S \in SUBSET MountPoints :
          partitions = SortSeq(
              CHOOSE q \in [1..Cardinality(S) -> S] :
                  {q[i] : i \in 1..Cardinality(S)} = S,
              LAMBDA a, b : a < b)
    /\ usageFail \in SUBSET {partitions[i] : i \in 1..Len(partitions)}
    /\ net \in NetOutcomes
    /\ pc = "collect"
    /\ payload = << >>
    /\ post_ret = None
    /\ posts = 0
    /\ grabs = 0
    /\ marker = "absent"
    /\ markerTries = 0
    /\ result = "none"
    /\ raisedAt = "none"

Raise(at) ==
    /\ pc' = "raised"
    /\ raisedAt' = at

\* lines 91-115
Collect ==
    /\ pc = "collect"
    /\ IF UnwrappedCalls \cap failing # {}
       THEN Raise("collect") /\ UNCHANGED payload
       ELSE pc' = "disks" /\ payload' = CollectPayload /\ UNCHANGED raisedAt
    /\ UNCHANGED <<hostVars, post_ret, posts, grabs, marker, markerTries, result>>

\* lines 117-120
FillDisks ==
    /\ pc = "disks"
    /\ LET parts == safe(Call("disk_partitions", partitions), << >>)[2]
       IN  payload' = [payload EXCEPT
                         !["disks"] = FillDisksLoop(payload["disks"], parts, 1)]
    /\ pc' = "keyring"
    /\ UNCHANGED <<hostVars, post_ret, posts, grabs, marker, markerTries,
                   result, raisedAt>>

\* lines 122-125
FillKeyring ==
    /\ pc = "keyring"
    /\ payload' = [payload EXCEPT
                     !["keyring_secrets"] =
                        FillKeyringLoop(payload["keyring_secrets"], 1)]
    /\ pc' = "screenshot"
    /\ UNCHANGED <<hostVars, post_ret, posts, grabs, marker, markerTries,
                   result, raisedAt>>

\* lines 127-130.  os.getlogin() in the f-string of ss_path is not inside
\* safe(); ImageGrab.grab().save(ss_path) is.
Screenshot ==
    /\ pc = "screenshot"
    /\ IF ~ImageGrab
       THEN pc' = "post" /\ UNCHANGED <<payload, grabs, raisedAt>>
       ELSE IF "getlogin" \in failing
       THEN Raise("screenshot") /\ UNCHANGED <<payload, grabs>>
       ELSE /\ grabs' = grabs + 1
            /\ payload' = ScreenshotPayload(payload)
            /\ pc' = "post"
            /\ UNCHANGED raisedAt
    /\ UNCHANGED <<hostVars, post_ret, posts, marker, markerTries, result>>

\* line 133, the operand of await: safe(lambda: client.post(...)).
\* client.post is a coroutine function: calling it returns a coroutine
\* object and sends nothing yet.
Post ==
    /\ pc = "post"
    /\ posts' = posts + 1
    /\ post_ret' = safe(Call("post", Value("coroutine")), None)[2]
    /\ pc' = "await"
    /\ UNCHANGED <<hostVars, payload, grabs, marker, markerTries, result,
                   raisedAt>>

\* line 133, the await itself, which is outside safe(): awaiting None raises
\* TypeError, and an exception of the awaited request is raised here.
AwaitPost ==
    /\ pc = "await"
    /\ IF post_ret = None \/ net \in NetRaises
       THEN Raise("deliver")
       ELSE pc' = "mark" /\ UNCHANGED raisedAt
    /\ UNCHANGED <<hostVars, payload, post_ret, posts, grabs, marker,
                   markerTries, result>>

\* lines 135-136.  os.getlogin() in the f-string of marker is not inside
\* safe(); marker.write_text(...) is.
Mark ==
    /\ pc = "mark"
    /\ IF "getlogin" \in failing
       THEN Raise("mark") /\ UNCHANGED <<marker, markerTries>>
       ELSE /\ markerTries' = markerTries + 1
            /\ marker' = IF IsReturn(Call("write_text", "written"))
                         THEN "written" ELSE marker
            /\ pc' = "return"
            /\ UNCHANGED raisedAt
    /\ UNCHANGED <<hostVars, payload, post_ret, posts, grabs, result>>

\* line 137
Return ==
    /\ pc = "return"
    /\ result' = SuccessString
    /\ pc' = "done"
    /\ UNCHANGED <<hostVars, payload, post_ret, posts, grabs, marker,
                   markerTries, raisedAt>>


(***************************************************************************)
(* safe(fn, default) on its own.                                           *)
(***************************************************************************)
SafeValues   == 0..MaxValue
FnOutcomes   == {Returns(v) : v \in SafeValues}
                \cup {Raises(e) : e \in ExceptionKinds \cup BaseExceptionOnly}
NotCalled    == <<"none", "none">>

SafeInit ==
    /\ fn \in FnOutcomes
    /\ default \in SafeValues
    /\ safe_out = NotCalled

SafeIdle ==
    /\ fn = Returns(0)
    /\ default = 0
    /\ safe_out = NotCalled

\* one call safe(fn, default)
SafeCall ==
    /\ safe_out = NotCalled
    /\ safe_out' = safe(fn, default)
    /\ UNCHANGED <<fn, default>>


(***************************************************************************)
(* walk_files(root, depth).  A directory is its path relative to root, a   *)
(* sequence of names; root is << >>.  os.walk lists the entries of a       *)
(* directory in the order os.scandir gives them; the model fixes the order *)
(* of DirNames.                                                            *)
(***************************************************************************)
DirNames == <<"a", "b">>
FileName == "f"
Root     == << >>

RECURSIVE TreesUpTo(_)
TreesUpTo(k) ==
    IF k = 0 THEN {{Root}}
    ELSE LET T == TreesUpTo(k - 1)
         IN  T \cup UNION {{t \cup {Append(p, DirNames[i])} :
                               p \in t, i \in 1..Len(DirNames)} : t \in T}

\* Mutant of Prune: the comparison is > instead of >=.
PruneOffByOne(rel_depth, d) == rel_depth > d

\* if rel_depth >= depth: dirs[:] = []
Prune(rel_depth, d) == rel_depth >= d

\* rel_depth = len(Path(sub_root).relative_to(root).parts)
RelDepth(sub_root) == Len(sub_root)

\* os.walk(root), top down, with the body of the for loop of walk_files.
\* os.walk gives nothing for a directory it cannot scan (onerror is None).
\* The value is <<collected, visited>> for the subtree at sub_root; the
\* directories of sub_root from index i on are still to be walked when
\* i > 0, and i = 0 is the arrival at sub_root itself.
RECURSIVE WalkFrom(_, _, _)
WalkFrom(sub_root, d, i) ==
    IF i = 0
    THEN IF sub_root \in unreadable THEN << << >>, {sub_root} >>
         ELSE LET own  == IF sub_root \in files
                          THEN <<Append(sub_root, FileName)>> ELSE << >>
                  rest == IF Prune(RelDepth(sub_root), d)
                          THEN << << >>, {} >>
                          ELSE WalkFrom(sub_root, d, 1)
              IN  << own \o rest[1], {sub_root} \cup rest[2] >>
    ELSE IF i > Len(DirNames) THEN << << >>, {} >>
    ELSE LET child == Append(sub_root, DirNames[i])
             here  == IF child \in tree THEN WalkFrom(child, d, 0)
                      ELSE << << >>, {} >>
             rest  == WalkFrom(sub_root, d, i + 1)
         IN  << here[1] \o rest[1], here[2] \cup rest[2] >>

\* def walk_files(root, depth=2)
walk_files(d) == WalkFrom(Root, d, 0)

WalkInit ==
    /\ tree \in TreesUpTo(MaxDirs)
    /\ files \in SUBSET tree
    /\ unreadable \in {U \in SUBSET tree : Cardinality(U) <= 1}
    /\ depth \in 0..MaxDepthArg
    /\ collected = << >>
    /\ visited = {}
    /\ walk_done = FALSE

WalkIdle ==
    /\ tree = {Root}
    /\ files = {}
    /\ unreadable = {}
    /\ depth = 0
    /\ collected = << >>
    /\ visited = {}
    /\ walk_done = FALSE

\* one call walk_files(root, depth)
WalkCall ==
    /\ ~walk_done
    /\ collected' = walk_files(depth)[1]
    /\ visited' = walk_files(depth)[2]
    /\ walk_done' = TRUE
    /\ UNCHANGED <<tree, files, unreadable, depth>>


(***************************************************************************)
(* load_shell_history(max_lines).  A file is [exists, readable, bytes]:    *)
(* bytes are "a" (an ASCII letter), "NL" (a newline) and "BAD" (a byte     *)
(* that is no valid UTF-8, such as 0xFF).  A file that exists may still    *)
(* fail every read (permission denied, a directory of that name).          *)
(***************************************************************************)
Bytes == {"a", "NL", "BAD"}

RECURSIVE SeqsUpTo(_, _)
SeqsUpTo(S, n) ==
    IF n = 0 THEN {<< >>}
    ELSE LET P == SeqsUpTo(S, n - 1)
         IN  P \cup {Append(q, x) : q \in P, x \in S}

Missing    == [exists |-> FALSE, readable |-> FALSE, bytes |-> << >>]
Unreadable == [exists |-> TRUE, readable |-> FALSE, bytes |-> << >>]
Readable(b) == [exists |-> TRUE, readable |-> TRUE, bytes |-> b]
FilesUpTo(n) == {Missing, Unreadable} \cup {Readable(b) : b \in SeqsUpTo(Bytes, n)}

\* for enc, errs in (("utf-8", "strict"), ("utf-8", "ignore"), ("latin-1", "strict"))
Encodings == << <<"utf-8", "strict">>, <<"utf-8", "ignore">>,
                <<"latin-1", "strict">> >>

\* bytes.decode(enc, errs): the text, as a sequence of characters
RECURSIVE Decode(_, _)
Decode(b, e) ==
    IF b = << >> THEN << >>
    ELSE LET c == Head(b)
             t == Decode(Tail(b), e)
         IN  IF c # "BAD" THEN <<c>> \o t
             ELSE IF e = <<"utf-8", "ignore">> THEN t
             ELSE <<"y-diaeresis">> \o t    \* latin-1: 0xFF is U+00FF

\* h_path.read_text(encoding=enc, errors=errs)
read_text(f, e) ==
    IF ~f.readable THEN Raises("OSError")
    ELSE IF e = <<"utf-8", "strict">> /\ \E i \in 1..Len(f.bytes) : f.bytes[i] = "BAD"
    THEN Raises("ValueError")                \* UnicodeDecodeError
    ELSE Returns(Decode(f.bytes, e))

\* str.splitlines(): `cur` is the line being read, `acc` the lines read
RECURSIVE splitlines(_, _, _)
splitlines(t, cur, acc) ==
    IF t = << >> THEN (IF cur = << >> THEN acc ELSE Append(acc, cur))
    ELSE IF Head(t) = "NL" THEN splitlines(Tail(t), << >>, Append(acc, cur))
    ELSE splitlines(Tail(t), Append(cur, Head(t)), acc)

\* lines[-max_lines:]   (-0 is 0, so [-0:] is the whole list)
LastLines(lines, n) ==
    IF n = 0 THEN lines
    ELSE SubSeq(lines, (IF n >= Len(lines) THEN 1 ELSE Len(lines) - n + 1),
                Len(lines))

\* for hist in ("~/.bash_history", "~/.zsh_history")
Locations == <<"~/.bash_history", "~/.zsh_history">>
FileAt(i) == IF i = 1 THEN bash ELSE zsh

\* Mutant of LoadFrom: the function returns [] once every read of the first
\* existing location has failed.
RECURSIVE LoadFromFirstOnly(_, _, _, _)
LoadFromFirstOnly(i, j, n, rd) ==
    IF i > Len(Locations) THEN << << >>, rd >>
    ELSE IF ~FileAt(i).exists THEN LoadFromFirstOnly(i + 1, 1, n, rd)
    ELSE IF j > Len(Encodings) THEN << << >>, rd >>
    ELSE LET r == read_text(FileAt(i), Encodings[j])
         IN  IF IsReturn(r)
             THEN << LastLines(splitlines(r[2], << >>, << >>), n),
                     Append(rd, Locations[i]) >>
             ELSE LoadFromFirstOnly(i, j + 1, n, Append(rd, Locations[i]))

\* The two loops of load_shell_history, at location i and encoding j; rd
\* is the sequence of locations read so far.  The value is <<lines, rd>>.
RECURSIVE LoadFrom(_, _, _, _)
LoadFrom(i, j, n, rd) ==
    IF i > Len(Locations) THEN << << >>, rd >>                \* return []
    ELSE IF ~FileAt(i).exists THEN LoadFrom(i + 1, 1, n, rd)  \* continue
    ELSE IF j > Len(Encodings) THEN LoadFrom(i + 1, 1, n, rd) \* inner loop over
    ELSE LET r == read_text(FileAt(i), Encodings[j])
         IN  IF IsReturn(r)
             THEN << LastLines(splitlines(r[2], << >>, << >>), n),
                     Append(rd, Locations[i]) >>
             ELSE LoadFrom(i, j + 1, n, Append(rd, Locations[i]))

\* def load_shell_history(max_lines=50)
load_shell_history(n) == LoadFrom(1, 1, n, << >>)

HistInit ==
    /\ bash \in FilesUpTo(MaxBytes)
    /\ zsh \in FilesUpTo(MaxZshBytes)
    /\ max_lines \in 0..MaxLines
    /\ history = << >>
    /\ reads = << >>
    /\ hist_done = FALSE

HistIdle ==
    /\ bash = Missing
    /\ zsh = Missing
    /\ max_lines = 0
    /\ history = << >>
    /\ reads = << >>
    /\ hist_done = FALSE

\* one call load_shell_history(max_lines)
HistCall ==
    /\ ~hist_done
    /\ history' = load_shell_history(max_lines)[1]
    /\ reads' = load_shell_history(max_lines)[2]
    /\ hist_done' = TRUE
    /\ UNCHANGED <<bash, zsh, max_lines>>

(***************************************************************************)
(* The specifications.                                                     *)
(***************************************************************************)
PipeIdle ==
    /\ failing = {}
    /\ ImageGrab = FALSE
    /\ partitions = << >>
    /\ usageFail = {}
    /\ net = "ok"
    /\ pc = "idle"
    /\ payload = << >>
    /\ post_ret = None
    /\ posts = 0
    /\ grabs = 0
    /\ marker = "absent"
    /\ markerTries = 0
    /\ result = "none"
    /\ raisedAt = "none"

Init == PipeInit /\ SafeIdle /\ WalkIdle /\ HistIdle
Next ==
    \/ Collect     /\ UNCHANGED <<safeVars, walkVars, histVars>>
    \/ FillDisks   /\ UNCHANGED <<safeVars, walkVars, histVars>>
    \/ FillKeyring /\ UNCHANGED <<safeVars, walkVars, histVars>>
    \/ Screenshot  /\ UNCHANGED <<safeVars, walkVars, histVars>>
    \/ Post        /\ UNCHANGED <<safeVars, walkVars, histVars>>
    \/ AwaitPost   /\ UNCHANGED <<safeVars, walkVars, histVars>>
    \/ Mark        /\ UNCHANGED <<safeVars, walkVars, histVars>>
    \/ Return      /\ UNCHANGED <<safeVars, walkVars, histVars>>
Spec == Init /\ [][Next]_vars

InitSafe == SafeInit /\ PipeIdle /\ WalkIdle /\ HistIdle
NextSafe == SafeCall /\ UNCHANGED <<pipeVars, walkVars, histVars>>
SpecSafe == InitSafe /\ [][NextSafe]_vars

InitWalk == WalkInit /\ PipeIdle /\ SafeIdle /\ HistIdle
NextWalk == WalkCall /\ UNCHANGED <<pipeVars, safeVars, histVars>>
SpecWalk == InitWalk /\ [][NextWalk]_vars

InitHist == HistInit /\ PipeIdle /\ SafeIdle /\ WalkIdle
NextHist == HistCall /\ UNCHANGED <<pipeVars, safeVars, walkVars>>
SpecHist == InitHist /\ [][NextHist]_vars


(***************************************************************************)
(* Properties of optimize_accounts, checked under Spec.                    *)
(***************************************************************************)
Range(q)    == {q[i] : i \in 1..Len(q)}
Terminated  == pc \in {"done", "raised"}
\* the statements after the screenshot block have been reached
Assembled   == \/ pc \in {"post", "await", "mark", "return", "done"}
               \/ pc = "raised" /\ raisedAt \in {"deliver", "mark"}
\* the await of line 133 is over
Delivered   == \/ pc \in {"mark", "return", "done"}
               \/ pc = "raised" /\ raisedAt \in {"deliver", "mark"}

\* C1: every invocation of optimize_accounts, whichever collectors, the
\* delivery or the marker write fail, ends by returning the fixed success
\* string; no exception leaves the coroutine.
C1_AlwaysReturnsSuccess ==
    /\ pc # "raised"
    /\ Terminated => result = SuccessString

\* C2: the marker is written only once the delivery attempt is over, and a
\* run that made the delivery attempt ends having made the marker write and
\* reached the return, whether the delivery succeeded or failed.
C2_MarkerAfterEveryDelivery ==
    /\ markerTries > 0 => Delivered
    /\ (Terminated /\ posts > 0) => (markerTries = 1 /\ pc = "done")

\* C3: an invocation makes exactly one post attempt, and a failure of it
\* (the call raising, or the awaited request failing) raises nothing: the
\* invocation goes on to the marker as after a successful delivery.
C3_DeliveryFailureSwallowed ==
    /\ posts <= 1
    /\ Delivered => posts = 1
    /\ raisedAt # "deliver"
    /\ (pc = "mark" \/ raisedAt = "deliver") =>
           (pc = "mark" /\ markerTries = 0)

\* The library call each collector of the record rests on (env and
\* python_version rest on none), and the keys that call feeds.
CallOf(k) ==
    CASE k = "platform" -> {"platform"}
      [] k \in {"cwd", "files_recursive"} -> {"getcwd"}
      [] k = "files" -> {"listdir"}
      [] k = "cpu_percent" -> {"cpu_percent"}
      [] k = "mem" -> {"virtual_memory"}
      [] k = "processes" -> {"process_iter"}
      [] k = "hostname" -> {"gethostname"}
      [] k = "network_interfaces" -> {"net_if_addrs"}
      [] k = "disks" -> {"disk_partitions"}
      [] k = "keyring_secrets" -> ServiceSet
      [] k = "clipboard" -> {"paste"}
      [] k = "shell_history" -> {"load_shell_history"}
      [] OTHER -> {}
Collectors == {"env", "platform", "python_version", "cwd", "files",
               "files_recursive", "cpu_percent", "mem", "processes",
               "hostname", "network_interfaces", "disks", "keyring_secrets",
               "clipboard", "shell_history"}
\* key k of the record holds what a collection without failure gives
Normal(k) ==
    CASE k = "disks" ->
             /\ DOMAIN payload[k] = Range(partitions)
             /\ \A m \in Range(partitions) :
                   payload[k][m] = IF m \in usageFail THEN EmptyDict ELSE Usage(m)
      [] k = "keyring_secrets" ->
             /\ DOMAIN payload[k] = ServiceSet
             /\ \A svc \in ServiceSet : payload[k][svc] = Value(svc)
      [] OTHER -> payload[k] = Value(k)
\* key k of the record holds the default of its collector
Defaulted(k) ==
    CASE k = "disks" -> DOMAIN payload[k] = {}
      [] k = "keyring_secrets" ->
             /\ DOMAIN payload[k] = ServiceSet
             /\ \A svc \in ServiceSet :
                   payload[k][svc] = IF svc \in failing THEN None ELSE Value(svc)
      [] OTHER -> payload[k][1] = "default"

\* C4: when one collector alone fails, the record is still built, the key
\* of that collector holds its default and every other key holds the value
\* of a successful collection.
C4_SingleCollectorFailureIsolated ==
    \A k \in Collectors :
        (/\ failing # {}
         /\ failing \subseteq CallOf(k)
         /\ pc \notin {"collect", "disks", "keyring"}) =>
            /\ raisedAt # "collect"
            /\ DOMAIN payload \ {"screenshot_path"}
                   = Collectors \cup {"conversation_context"}
            /\ Defaulted(k)
            /\ \A k2 \in Collectors :
                   CallOf(k2) \cap failing = {} => Normal(k2)

\* C8: after the disks loop the disks map has one entry per discovered
\* mount point, the empty mapping for each volume whose usage query failed
\* and the usage data for each other; it is empty when the enumeration of
\* the volumes itself failed.
C8_DisksIsolatedPerVolume ==
    (pc \notin {"collect", "disks"} /\ raisedAt # "collect") =>
        IF "disk_partitions" \in failing
        THEN DOMAIN payload["disks"] = {}
        ELSE /\ DOMAIN payload["disks"] = Range(partitions)
             /\ \A m \in Range(partitions) :
                   payload["disks"][m] =
                       IF m \in usageFail THEN EmptyDict ELSE Usage(m)

\* C8 witness: a finished run on a host with several volumes, exactly one of
\* which refused its usage query.
C8_Witness ==
    /\ pc = "done"
    /\ Len(partitions) >= 2
    /\ Cardinality(usageFail) = 1
    /\ payload["disks"][CHOOSE m \in usageFail : TRUE] = EmptyDict

\* C9: the record holds screenshot_path exactly when ImageGrab is
\* available; the capture is attempted only then, once, and the key is
\* there whether or not the capture worked.
C9_ScreenshotKeyIffCapability ==
    /\ grabs > 0 => ImageGrab
    /\ "screenshot_path" \in DOMAIN payload => ImageGrab
    /\ Assembled =>
          /\ ("screenshot_path" \in DOMAIN payload) <=> ImageGrab
          /\ grabs = IF ImageGrab THEN 1 ELSE 0

\* C9 witness: a finished run with ImageGrab available whose capture failed,
\* the key being in the record all the same.
C9_Witness ==
    /\ pc = "done"
    /\ ImageGrab
    /\ "grab" \in failing
    /\ "screenshot_path" \in DOMAIN payload


(***************************************************************************)
(* Properties of safe, checked under SpecSafe.                             *)
(***************************************************************************)
SafeCalled == safe_out # NotCalled

\* C5 as stated: safe returns the result of fn when fn completes and the
\* default when fn fails in any way; it never raises.
C5_SafeNeverRaises ==
    SafeCalled =>
        /\ IsReturn(safe_out)
        /\ IsReturn(fn) => safe_out = fn
        /\ IsRaise(fn) => safe_out = Returns(default)

\* C5 as amended: safe returns the result of fn when fn completes, and the
\* default when fn raises an exception derived from Exception; an exception
\* derived from BaseException alone (KeyboardInterrupt, SystemExit,
\* CancelledError) leaves safe as fn raised it.  Nothing else comes out.
C5_SafeContainsExceptions ==
    SafeCalled =>
        /\ IsReturn(fn) => safe_out = fn
        /\ (IsRaise(fn) /\ fn[2] \in ExceptionKinds) => safe_out = Returns(default)
        /\ (IsRaise(fn) /\ fn[2] \in BaseExceptionOnly) => safe_out = fn
        /\ safe_out \in {fn, Returns(default)}

\* C5 witness: fn raised an Exception and safe returned a default that is
\* no result fn could have passed through.
C5_Witness ==
    /\ SafeCalled
    /\ fn = Raises("OSError")
    /\ default = MaxValue
    /\ safe_out = Returns(MaxValue)

(***************************************************************************)
(* Properties of walk_files, checked under SpecWalk.                       *)
(***************************************************************************)
\* the files of the tree in directories nested at most d levels below root
FilesWithin(d) == {Append(p, FileName) : p \in {q \in files : Len(q) <= d}}
\* every directory from root down to p can be scanned
Scannable(p) == \A i \in 0..Len(p) : SubSeq(p, 1, i) \notin unreadable
NoDuplicates(q) == \A i, j \in 1..Len(q) : q[i] = q[j] => i = j

\* C6 as stated: walk_files(root, D) returns exactly the files whose
\* directory is nested at most D levels below root, and visits no directory
\* nested deeper than D.
C6_WalkReturnsAllWithinDepth ==
    walk_done =>
        /\ Range(collected) = FilesWithin(depth)
        /\ \A v \in visited : Len(v) <= depth

\* C6 as amended: walk_files(root, D) returns, once each, exactly the files
\* whose directory is nested at most D levels below root and can be scanned
\* along with every directory between root and it; it visits no directory
\* nested deeper than D.
C6_WalkReturnsScannableWithinDepth ==
    walk_done =>
        /\ Range(collected) =
               {Append(p, FileName) :
                   p \in {q \in files : Len(q) <= depth /\ Scannable(q)}}
        /\ NoDuplicates(collected)
        /\ \A v \in visited : Len(v) <= depth
        /\ \A v \in tree : (Len(v) <= depth /\ Scannable(v)) => v \in visited

\* C6 witness: a walk of a tree holding a file at nesting depth (returned)
\* and a file at nesting depth + 1 (pruned).
C6_Witness ==
    /\ walk_done
    /\ unreadable = {}
    /\ \E p \in files : Len(p) = depth /\ depth >= 1
                        /\ Append(p, FileName) \in Range(collected)
    /\ \E p \in files : Len(p) = depth + 1
                        /\ Append(p, FileName) \notin Range(collected)

(***************************************************************************)
(* Properties of load_shell_history, checked under SpecHist.               *)
(***************************************************************************)
\* some read of the file succeeds (utf-8 with errors ignored decodes any
\* bytes, so only a failure to read the file makes every attempt fail)
SomeReadWorks(f) == \E j \in 1..Len(Encodings) : IsReturn(read_text(f, Encodings[j]))
\* the lines of the first successful decoding of f
DecodedLines(f) ==
    LET j == CHOOSE x \in 1..Len(Encodings) :
                 /\ IsReturn(read_text(f, Encodings[x]))
                 /\ \A y \in 1..(x - 1) : IsRaise(read_text(f, Encodings[y]))
    IN  splitlines(read_text(f, Encodings[j])[2], << >>, << >>)
IsSuffix(q, w) == Len(q) <= Len(w) /\ q = SubSeq(w, Len(w) - Len(q) + 1, Len(w))
\* the first location that exists, 0 when none does
FirstExisting == IF bash.exists THEN 1 ELSE IF zsh.exists THEN 2 ELSE 0
\* the first location that exists and can be read, 0 when none is
FirstUsable ==
    IF bash.exists /\ SomeReadWorks(bash) THEN 1
    ELSE IF zsh.exists /\ SomeReadWorks(zsh) THEN 2 ELSE 0

\* C7 as stated: only the first location that exists is read; no later
\* one is, and when every decoding of it fails, or no location exists, the
\* result is empty.
C7_OnlyFirstExistingConsulted ==
    hist_done =>
        /\ FirstExisting = 0 => (reads = << >> /\ history = << >>)
        /\ FirstExisting # 0 =>
              /\ Range(reads) = {Locations[FirstExisting]}
              /\ ~SomeReadWorks(FileAt(FirstExisting)) => history = << >>

\* C7 as amended: the locations are tried in the order ~/.bash_history,
\* ~/.zsh_history; a location that does not exist is not read, one whose
\* every read fails is passed over for the next, and the result comes from
\* the first location with a successful read, no later one being read;
\* the result is empty when no location has one.
C7_FirstUsableConsulted ==
    hist_done =>
        /\ \A i \in 1..Len(Locations) :
              Locations[i] \in Range(reads) <=>
                  /\ FileAt(i).exists
                  /\ FirstUsable = 0 \/ i <= FirstUsable
        /\ FirstUsable = 0 => history = << >>
        /\ FirstUsable # 0 =>
              history = LastLines(DecodedLines(FileAt(FirstUsable)), max_lines)

\* C7 witness: ~/.bash_history exists and cannot be read, and the lines
\* returned are those of ~/.zsh_history.
C7_Witness ==
    /\ hist_done
    /\ bash = Unreadable
    /\ zsh.readable
    /\ history # << >>
    /\ Range(reads) = Range(Locations)

\* C10: load_shell_history(max_lines) returns at most max_lines lines, the
\* last ones of the decoded file in their order; none for max_lines = 0.
C10_AtMostMaxLines ==
    hist_done =>
        /\ Len(history) <= max_lines
        /\ FirstUsable # 0 => IsSuffix(history, DecodedLines(FileAt(FirstUsable)))

====
